---- MODULE Spec2Model ----
(***************************************************************************)
(* Model of stac_validator/stac_validator.py: the StacValidate class       *)
(* (constructor, fix_version, is_valid_url, fetch_and_parse_file,          *)
(* fetch_common_schemas, save_schema, run) and the command line entry      *)
(* point main.                                                             *)
(*                                                                         *)
(* Python strings are sequences of one-character strings, so that the      *)
(* code's character tests, joins and comparisons are computed, not         *)
(* assumed.  A dict is a function from its keys.                           *)
(***************************************************************************)
EXTENDS Integers, Sequences, FiniteSets, TLC

VARIABLES self, nruns, dirs, files, ret, resolved, mainRec, fv

vars == <<self, nruns, dirs, files, ret, resolved, mainRec, fv>>

(***************************************************************************)
(* Bounds.                                                                 *)
(***************************************************************************)
\* number of names tempfile.mkdtemp can hand out
MaxDirs == 2
\* number of run() calls followed on one instance
MaxRuns == 2
\* longest version string given to fix_version in SpecFix
MaxLen == 3

(***************************************************************************)
(* Strings.                                                                *)
(***************************************************************************)
\* code points of the characters that occur in compared strings
CodePoint ==
    ("-" :> 45) @@ ("." :> 46) @@ ("0" :> 48) @@ ("1" :> 49) @@ ("9" :> 57)
    @@ ("a" :> 97) @@ ("d" :> 100) @@ ("e" :> 101) @@ ("m" :> 109)
    @@ ("r" :> 114) @@ ("s" :> 115) @@ ("t" :> 116) @@ ("v" :> 118)

\* Python's str > str: lexicographic by code point, a proper prefix is smaller
RECURSIVE StrGreater(_, _)
StrGreater(a, b) ==
    IF a = <<>> THEN FALSE
    ELSE IF b = <<>> THEN TRUE
    ELSE IF CodePoint[Head(a)] # CodePoint[Head(b)]
         THEN CodePoint[Head(a)] > CodePoint[Head(b)]
    ELSE StrGreater(Tail(a), Tail(b))

StartsWith(s, p) == Len(s) >= Len(p) /\ SubSeq(s, 1, Len(p)) = p

EndsWith(s, p) == Len(s) >= Len(p) /\ SubSeq(s, Len(s) - Len(p) + 1, Len(s)) = p

\* str.strip(): leading and trailing whitespace removed
RECURSIVE LStrip(_)
LStrip(s) == IF s # <<>> /\ Head(s) = " " THEN LStrip(Tail(s)) ELSE s

RECURSIVE RStrip(_)
RStrip(s) ==
    IF s # <<>> /\ s[Len(s)] = " " THEN RStrip(SubSeq(s, 1, Len(s) - 1)) ELSE s

Strip(s) == RStrip(LStrip(s))

\* str.lower() on the letters that occur in upper case
LowerChar(c) ==
    CASE c = "I" -> "i" [] c = "T" -> "t" [] c = "E" -> "e" [] c = "M" -> "m"
      [] c = "C" -> "c" [] c = "A" -> "a" [] c = "L" -> "l" [] c = "O" -> "o"
      [] c = "G" -> "g" [] c = "N" -> "n" [] c = "H" -> "h" [] c = "P" -> "p"
      [] OTHER -> c

Lower(s) == [k \in 1..Len(s) |-> LowerChar(s[k])]

\* posixpath.join of two components
Join2(path, b) ==
    IF StartsWith(b, <<"/">>) THEN b
    ELSE IF path = <<>> \/ EndsWith(path, <<"/">>) THEN path \o b
    ELSE path \o <<"/">> \o b

\* os.path.join(a, *p)
RECURSIVE PathJoin(_, _)
PathJoin(a, p) == IF p = <<>> THEN a ELSE PathJoin(Join2(a, Head(p)), Tail(p))

\* str.join
RECURSIVE StrJoin(_, _)
StrJoin(sep, parts) ==
    IF parts = <<>> THEN <<>>
    ELSE IF Len(parts) = 1 THEN parts[1]
    ELSE parts[1] \o sep \o StrJoin(sep, Tail(parts))

NotValidJsonText == <<" ", "i", "s", " ", "n", "o", "t", " ", "V", "a", "l", "i", "d", " ", "J", "S", "O", "N">>
CannotBeFoundText == <<" ", "c", "a", "n", "n", "o", "t", " ", "b", "e", " ", "f", "o", "u", "n", "d">>
SchemaErrorText == <<"C", "a", "n", "n", "o", "t", " ", "g", "e", "t", " ", "s", "c", "h", "e", "m", "a", " ", "t", "o", " ", "v", "a", "l", "i", "d", "a", "t", "e", " ", "a", "g", "a", "i", "n", "s", "t">>
RefResolutionText == <<"J", "S", "O", "N", " ", "R", "e", "f", "e", "r", "e", "n", "c", "e", " ", "R", "e", "s", "o", "l", "u", "t", "i", "o", "n", " ", "E", "r", "r", "o", "r", ".">>
ErrorIsInText == <<".", " ", "E", "r", "r", "o", "r", " ", "i", "s", " ", "i", "n", " ">>
ArrowText == <<" ", "-", ">", " ">>
RootText == <<" ", "o", "f", " ", "t", "h", "e", " ", "r", "o", "o", "t", " ", "o", "f", " ", "t", "h", "e", " ", "S", "T", "A", "C", " ", "o", "b", "j", "e", "c", "t">>
FilePrefix == <<"f", "i", "l", "e", ":", "/", "/">>
JsonSuffix == <<".", "j", "s", "o", "n">>

(***************************************************************************)
(* The world outside the program: the local filesystem's documents, the    *)
(* schema host and the libraries (requests, pystac, jsonschema).           *)
(***************************************************************************)
HostH == <<"h", "t", "t", "p", ":", "/", "/", "h">>
HostX == <<"h", "t", "t", "p", ":", "/", "/", "x">>

\* a JSON null
None == [kind |-> "null"]

ItemGood == [kind |-> "object", object_type |-> <<"I", "T", "E", "M">>, props |-> {"id", "type"}]
ItemNoId == [kind |-> "object", object_type |-> <<"I", "T", "E", "M">>, props |-> {"type"}]
CatalogDoc == [kind |-> "object", object_type |-> <<"C", "A", "T", "A", "L", "O", "G">>, props |-> {"id"}]

\* the local files that exist: path -> whether the text parses, and its value
LocalFiles ==
    (<<"g">> :> [parses |-> TRUE, data |-> ItemGood])
    @@ (<<"b">> :> [parses |-> TRUE, data |-> ItemNoId])
    @@ (<<"c">> :> [parses |-> TRUE, data |-> CatalogDoc])
    @@ (<<"n">> :> [parses |-> TRUE, data |-> None])
    @@ (<<"j">> :> [parses |-> FALSE, data |-> None])

Ref(r) == [k \in {"$ref"} |-> r]

NoCommonSchema == [required |-> {"id"}, definitions |-> <<>>]

CommonSchema(refs) ==
    [required |-> {"id"}, definitions |-> [common_metadata |-> [allOf |-> refs]]]

SubSchema(t) == [title |-> t]

\* the JSON documents the reachable host serves; any other URL on it is an
\* HTML error page
WebJson ==
    (<<"h", "t", "t", "p", ":", "/", "/", "h", "/", "i">> :> ItemGood)
    @@ (<<"h", "t", "t", "p", ":", "/", "/", "h", "/", "v", "0", ".", "9", ".", "0", "/", "i", "t", "e", "m", ".", "j", "s", "o", "n">> :> NoCommonSchema)
    @@ (<<"h", "t", "t", "p", ":", "/", "/", "h", "/", "v", "0", ".", "9", ".", "0", "/", "c", "a", "t", "a", "l", "o", "g", ".", "j", "s", "o", "n">> :> NoCommonSchema)
    @@ (<<"h", "t", "t", "p", ":", "/", "/", "h", "/", "v", "1", ".", "0", ".", "0", "/", "c", "a", "t", "a", "l", "o", "g", ".", "j", "s", "o", "n">> :> NoCommonSchema)
    @@ (<<"h", "t", "t", "p", ":", "/", "/", "h", "/", "v", "1", ".", "0", ".", "0", "/", "i", "t", "e", "m", ".", "j", "s", "o", "n">> :> CommonSchema(<<Ref(<<"b", ".", "j", "s", "o", "n">>), Ref(<<"h", "t", "t", "p", ":", "/", "/", "h", "/", "c", ".", "j", "s", "o", "n">>)>>))
    @@ (<<"h", "t", "t", "p", ":", "/", "/", "h", "/", "v", "1", ".", "1", ".", "0", "/", "i", "t", "e", "m", ".", "j", "s", "o", "n">> :> CommonSchema(<<Ref(<<"b", ".", "j", "s", "o", "n">>), Ref(<<"m", ".", "j", "s", "o", "n">>)>>))
    @@ (<<"h", "t", "t", "p", ":", "/", "/", "h", "/", "m", "a", "s", "t", "e", "r", "/", "i", "t", "e", "m", ".", "j", "s", "o", "n">> :> CommonSchema(<<Ref(<<"b", ".", "j", "s", "o", "n">>)>>))
    @@ (<<"h", "t", "t", "p", ":", "/", "/", "h", "/", "v", "1", ".", "0", ".", "0", "/", "b", ".", "j", "s", "o", "n">> :> SubSchema("basics"))
    @@ (<<"h", "t", "t", "p", ":", "/", "/", "h", "/", "v", "1", ".", "1", ".", "0", "/", "b", ".", "j", "s", "o", "n">> :> SubSchema("basics"))
    @@ (<<"h", "t", "t", "p", ":", "/", "/", "h", "/", "c", ".", "j", "s", "o", "n">> :> SubSchema("common"))

\* urllib.parse.urlparse(url).scheme: the characters before the first ':',
\* lower-cased, when they start with a letter and are all scheme characters
SchemeChars ==
    {"a", "b", "c", "d", "e", "f", "g", "h", "i", "j", "l", "m", "n", "o", "p",
     "q", "r", "s", "t", "v", "x", "z", "0", "1", "9", "+", "-", "."}
Letters == SchemeChars \ {"0", "1", "9", "+", "-", "."}

Scheme(url) ==
    LET colons == {k \in 1..Len(url) : url[k] = ":"}
    IN  IF colons = {} THEN <<>>
        ELSE LET c == CHOOSE k \in colons : \A j \in colons : k <= j
                 pre == Lower(SubSeq(url, 1, c - 1))
             IN  IF c > 1 /\ pre[1] \in Letters
                    /\ \A k \in 1..Len(pre) : pre[k] \in SchemeChars
                 THEN pre ELSE <<>>

is_valid_url(url) == Scheme(url) \in {<<"h", "t", "t", "p">>, <<"h", "t", "t", "p", "s">>}

\* requests.get(url) followed by .json(): the parsed body, a JSONDecodeError
\* ("nonjson"), or a transport exception of requests ("error")
Get(url) ==
    IF ~is_valid_url(url) \/ StartsWith(url, HostX)
    THEN [status |-> "error", body |-> None]
    ELSE IF url \in DOMAIN WebJson THEN [status |-> "json", body |-> WebJson[url]]
    ELSE [status |-> "nonjson", body |-> None]

\* pystac.serialization.identify_stac_object
identify_stac_object(stac_content) ==
    IF stac_content.kind = "object"
    THEN [raised |-> FALSE, object_type |-> stac_content.object_type]
    ELSE [raised |-> TRUE, object_type |-> <<>>]

RequiredIdText == <<"'", "i", "d", "'", " ", "i", "s", " ", "a", " ", "r", "e", "q", "u", "i", "r", "e", "d", " ", "p", "r", "o", "p", "e", "r", "t", "y">>
RequiredDatetimeText == <<"'", "d", "a", "t", "e", "t", "i", "m", "e", "'", " ", "i", "s", " ", "a", " ", "r", "e", "q", "u", "i", "r", "e", "d", " ", "p", "r", "o", "p", "e", "r", "t", "y">>
PropertiesText == <<"p", "r", "o", "p", "e", "r", "t", "i", "e", "s">>

\* what Item.from_file(...) followed by item.validate() can do: return, raise
\* one of the two exceptions run() handles, or raise anything else
ValidateOutcomes ==
    { [exc |-> "none", message |-> <<>>, absolute_path |-> <<>>],
      [exc |-> "RefResolutionError", message |-> <<>>, absolute_path |-> <<>>],
      [exc |-> "ValidationError", message |-> RequiredIdText, absolute_path |-> <<>>],
      [exc |-> "ValidationError", message |-> RequiredDatetimeText,
       absolute_path |-> <<PropertiesText>>],
      [exc |-> "other", message |-> <<>>, absolute_path |-> <<>>] }

(***************************************************************************)
(* StacValidate.                                                           *)
(***************************************************************************)
\* fix_version with 'd' left out of the list of first characters
fix_version_NoDev(version) ==
    IF version[1] \notin {"m", "v"} THEN <<"v">> \o version ELSE version

\* fix_version: add a 'v' to the front of the version (version is not empty:
\* version[0] of an empty string raises IndexError)
fix_version(version) ==
    IF version[1] \notin {"m", "d", "v"} THEN <<"v">> \o version ELSE version

\* save_schema: the parent directories are made and the file is (over)written
save_schema(fsys, tmp_path, schema) ==
    [p \in DOMAIN fsys \cup {tmp_path} |-> IF p = tmp_path THEN schema ELSE fsys[p]]

\* create_err_msg without the valid_stac entry
create_err_msg_NoFlag(err_type, err_msg) ==
    [error_type |-> err_type, error_message |-> err_msg]

\* create_err_msg
create_err_msg(err_type, err_msg) ==
    [valid_stac |-> FALSE, error_type |-> err_type, error_message |-> err_msg]

\* dict.update
Update(d, e) == [k \in DOMAIN d \cup DOMAIN e |-> IF k \in DOMAIN e THEN e[k] ELSE d[k]]

\* fetch_and_parse_file whose FileNotFoundError clause reports InvalidJSON
fetch_and_parse_file_OneKind(input_path) ==
    IF is_valid_url(input_path)
    THEN LET resp == Get(input_path)
         IN  CASE resp.status = "error" ->
                    [raised |-> TRUE, data |-> None, err_message |-> <<>>]
               [] resp.status = "nonjson" ->
                    [raised |-> FALSE, data |-> None,
                     err_message |-> create_err_msg("InvalidJSON", input_path \o NotValidJsonText)]
               [] OTHER ->
                    [raised |-> FALSE, data |-> resp.body, err_message |-> <<>>]
    ELSE IF input_path \notin DOMAIN LocalFiles \/ ~LocalFiles[input_path].parses
         THEN [raised |-> FALSE, data |-> None,
               err_message |-> create_err_msg("InvalidJSON", input_path \o NotValidJsonText)]
    ELSE [raised |-> FALSE, data |-> LocalFiles[input_path].data, err_message |-> <<>>]

\* fetch_and_parse_file: (data, err_message), or an exception that is neither
\* JSONDecodeError nor FileNotFoundError and leaves the function
fetch_and_parse_file(input_path) ==
    IF is_valid_url(input_path)
    THEN LET resp == Get(input_path)
         IN  CASE resp.status = "error" ->
                    [raised |-> TRUE, data |-> None, err_message |-> <<>>]
               [] resp.status = "nonjson" ->
                    [raised |-> FALSE, data |-> None,
                     err_message |-> create_err_msg("InvalidJSON", input_path \o NotValidJsonText)]
               [] OTHER ->
                    [raised |-> FALSE, data |-> resp.body, err_message |-> <<>>]
    ELSE IF input_path \notin DOMAIN LocalFiles
         THEN [raised |-> FALSE, data |-> None,
               err_message |-> create_err_msg("FileNotFoundError", input_path \o CannotBeFoundText)]
    ELSE IF ~LocalFiles[input_path].parses
         THEN [raised |-> FALSE, data |-> None,
               err_message |-> create_err_msg("InvalidJSON", input_path \o NotValidJsonText)]
    ELSE [raised |-> FALSE, data |-> LocalFiles[input_path].data, err_message |-> <<>>]

\* the loop of fetch_common_schemas that skips an entry whose sub-schema is
\* already in the scratch directory, leaving its $ref as it was
RECURSIVE CommonLoop_SkipSaved(_, _, _, _, _)
CommonLoop_SkipSaved(obj, allOf, k, fsys, n) ==
    IF k > Len(allOf)
    THEN [raised |-> FALSE, allOf |-> allOf, files |-> fsys, requests |-> n]
    ELSE LET i == allOf[k]
             url == IF is_valid_url(i["$ref"]) THEN i["$ref"]
                    ELSE PathJoin(obj.stac_spec_host, <<obj.stac_version, i["$ref"]>>)
             resp == Get(url)
             tmp_schema_path ==
                 PathJoin(obj.dirpath, <<obj.stac_spec_host, obj.stac_version, i["$ref"]>>)
         IN  IF tmp_schema_path \in DOMAIN fsys
             THEN CommonLoop_SkipSaved(obj, allOf, k + 1, fsys, n)
             ELSE IF resp.status # "json"
             THEN [raised |-> TRUE, allOf |-> allOf, files |-> fsys, requests |-> n + 1]
             ELSE CommonLoop_SkipSaved(obj,
                             [allOf EXCEPT ![k] = [i EXCEPT !["$ref"] = FilePrefix \o tmp_schema_path]],
                             k + 1, save_schema(fsys, tmp_schema_path, resp.body), n + 1)

\* the loop of fetch_common_schemas from entry k on: allOf is the list being
\* rewritten in place, n the requests made so far
RECURSIVE CommonLoop(_, _, _, _, _)
CommonLoop(obj, allOf, k, fsys, n) ==
    IF k > Len(allOf)
    THEN [raised |-> FALSE, allOf |-> allOf, files |-> fsys, requests |-> n]
    ELSE LET i == allOf[k]
             url == IF is_valid_url(i["$ref"]) THEN i["$ref"]
                    ELSE PathJoin(obj.stac_spec_host, <<obj.stac_version, i["$ref"]>>)
             resp == Get(url)
             tmp_schema_path ==
                 PathJoin(obj.dirpath, <<obj.stac_spec_host, obj.stac_version, i["$ref"]>>)
         IN  IF resp.status # "json"
             THEN [raised |-> TRUE, allOf |-> allOf, files |-> fsys, requests |-> n + 1]
             ELSE CommonLoop(obj,
                             [allOf EXCEPT ![k] = [i EXCEPT !["$ref"] = FilePrefix \o tmp_schema_path]],
                             k + 1, save_schema(fsys, tmp_schema_path, resp.body), n + 1)

\* fetch_common_schemas: stac_json["definitions"]["common_metadata"] raises
\* KeyError when the schema has no such definition
fetch_common_schemas(obj, stac_json, fsys) ==
    IF "common_metadata" \notin DOMAIN stac_json.definitions
    THEN [raised |-> TRUE, stac_json |-> stac_json, files |-> fsys, requests |-> 0]
    ELSE LET r == CommonLoop(obj, stac_json.definitions.common_metadata.allOf, 1, fsys, 0)
         IN  [raised |-> r.raised,
              stac_json |-> [stac_json EXCEPT !.definitions.common_metadata.allOf = r.allOf],
              files |-> r.files, requests |-> r.requests]

\* the condition without the test of the type
NeedsCommon_AnyType(stac_type, stac_version) ==
    StrGreater(stac_version, <<"v", "0", ".", "9", ".", "0">>)

\* the condition of run() under which the common schemas are fetched
NeedsCommon(stac_type, stac_version) ==
    stac_type = <<"i", "t", "e", "m">> /\ StrGreater(stac_version, <<"v", "0", ".", "9", ".", "0">>)

\* the except clauses of run() around the validation
ValidationMessage(message, vo) ==
    CASE vo.exc = "none" -> Update(message, [valid_stac |-> TRUE])
      [] vo.exc = "RefResolutionError" ->
            Update(Update(message, [valid_stac |-> FALSE]),
                   create_err_msg("RefResolutionError", RefResolutionText))
      [] OTHER ->
            Update(message,
                   create_err_msg("ValidationError",
                       IF vo.absolute_path # <<>>
                       THEN vo.message \o ErrorIsInText \o StrJoin(ArrowText, vo.absolute_path)
                       ELSE vo.message \o RootText))

\* what one call of run() leaves behind: the object, the files, and what the
\* call did (out)
Outcome(obj, fsys, kind, value, nschema, nsub, nval, content, schema, common) ==
    [self |-> obj, files |-> fsys,
     out |-> [kind |-> kind, value |-> value, stac_file |-> obj.stac_file,
              stac_type |-> obj.stac_type,
              stac_version |-> obj.stac_version, stac_spec_host |-> obj.stac_spec_host,
              dirpath |-> obj.dirpath, message |-> obj.message,
              schema_requests |-> nschema, sub_requests |-> nsub, validations |-> nval,
              stac_content |-> content, schema_json |-> schema, common |-> common]]

NoSchema == [required |-> {}, definitions |-> <<>>]

\* return json.dumps(self.message)
Finish(obj, fsys, nschema, nsub, nval, content, schema, common) ==
    Outcome(obj, fsys, "returned", obj.message, nschema, nsub, nval, content, schema, common)

\* run() from the validation on (the try statement and what follows it)
Validate(obj, fsys, vo, message, content, schema, nsub, common) ==
    IF vo.exc = "other"
    THEN Outcome(obj, fsys, "raised", <<>>, 1, nsub, 1, content, schema, common)
    ELSE Finish([obj EXCEPT !.message = Append(@, ValidationMessage(message, vo))],
                fsys, 1, nsub, 1, content, schema, common)

\* run() once the common schemas are dealt with: fc is what
\* fetch_common_schemas returned, or the root schema untouched
Resolved(obj, vo, message, content, fc, common) ==
    IF fc.raised
    THEN Outcome(obj, fc.files, "raised", <<>>, 1, fc.requests, 0, content,
                 fc.stac_json, "raised")
    ELSE Validate(obj, fc.files, vo, message, content, fc.stac_json, fc.requests, common)

\* run() once the root schema is parsed: save it, then fetch the common
\* schemas if the type and the version ask for them
SchemaFetched(obj, fsys, vo, message, content, schema_url, schema_json) ==
    IF NeedsCommon(obj.stac_type, obj.stac_version)
    THEN Resolved(obj, vo, Update(message, [schema |-> schema_url]), content,
                  fetch_common_schemas(obj, schema_json,
                      save_schema(fsys, PathJoin(obj.dirpath, <<schema_url>>), schema_json)),
                  "returned")
    ELSE Resolved(obj, vo, Update(message, [schema |-> schema_url]), content,
                  [raised |-> FALSE, stac_json |-> schema_json,
                   files |-> save_schema(fsys, PathJoin(obj.dirpath, <<schema_url>>), schema_json),
                   requests |-> 0],
                  "none")

\* run() once the request for the root schema is answered by resp
SchemaRequested(obj, fsys, vo, message, content, schema_url, resp) ==
    CASE resp.status = "error" ->
            Outcome(obj, fsys, "raised", <<>>, 1, 0, 0, content, NoSchema, "none")
      [] resp.status = "nonjson" ->
            Finish([obj EXCEPT !.message =
                       Append(@, Update(message, create_err_msg("SchemaError", SchemaErrorText)))],
                   fsys, 1, 0, 0, content, NoSchema, "none")
      [] OTHER -> SchemaFetched(obj, fsys, vo, message, content, schema_url, resp.body)

\* run() once self.stac_type is set
Identified(obj, fsys, vo, message, content, schema_url) ==
    SchemaRequested(obj, fsys, vo, Update(message, [asset_type |-> obj.stac_type]),
                    content, schema_url, Get(schema_url))

\* run() once the document is parsed: id is what identify_stac_object did
Parsed(obj, fsys, vo, message, content, id) ==
    IF id.raised
    THEN Outcome(obj, fsys, "raised", <<>>, 0, 0, 0, content, NoSchema, "none")
    ELSE Identified([obj EXCEPT !.stac_type = Lower(id.object_type)], fsys, vo, message,
                    content,
                    PathJoin(obj.stac_spec_host,
                             <<obj.stac_version, Lower(id.object_type) \o JsonSuffix>>))

\* run() once fetch_and_parse_file is back with fp
Fetched(obj, fsys, vo, message, fp) ==
    IF fp.raised
    THEN Outcome(obj, fsys, "raised", <<>>, 0, 0, 0, None, NoSchema, "none")
    ELSE IF DOMAIN fp.err_message # {}
    THEN Finish([obj EXCEPT !.message = <<Update(message, fp.err_message)>>],
                fsys, 0, 0, 0, None, NoSchema, "none")
    ELSE Parsed(obj, fsys, vo, message, fp.data, identify_stac_object(fp.data))

\* run(): vo is what the validation does if the call gets that far
run(obj, fsys, vo) ==
    Fetched(obj, fsys, vo, [path |-> obj.stac_file], fetch_and_parse_file(obj.stac_file))

NoExc == [exc |-> "none", message |-> <<>>, absolute_path |-> <<>>]

\* the validation outcomes that make a difference to this call: all of them
\* when the call reaches the validation, one otherwise
VoChoices(obj, fsys) ==
    IF run(obj, fsys, NoExc).out.validations = 1 THEN ValidateOutcomes ELSE {NoExc}

\* StacValidate.__init__ with the scratch directory mkdtemp made
StacValidate(stac_file, stac_spec_host, version, dirpath) ==
    [alive |-> TRUE, stac_version |-> fix_version(version), stac_file |-> Strip(stac_file),
     dirpath |-> dirpath, stac_spec_host |-> stac_spec_host, message |-> <<>>,
     stac_type |-> <<>>]

\* shutil.rmtree(dirpath) on the files
rmtree(fsys, dirpath) ==
    [p \in {q \in DOMAIN fsys : ~StartsWith(q, dirpath \o <<"/">>)} |-> fsys[p]]

\* the schema resolutions the client's objects have done, with what they
\* depended on
Resolution(out, call) ==
    IF out.common = "returned"
    THEN {[call |-> call, stac_type |-> out.stac_type, stac_version |-> out.stac_version, stac_spec_host |-> out.stac_spec_host,
           dirpath |-> out.dirpath, schema_json |-> out.schema_json]}
    ELSE {}

(***************************************************************************)
(* Inputs.                                                                 *)
(***************************************************************************)
Digit == <<"1", "2", "3", "4", "5", "6", "7", "8", "9">>

\* tempfile.mkdtemp(): a directory that did not exist.  The program only joins
\* the name into paths, so the first free name stands for any of them
mkdtemp(existing) ==
    {<<"/", "t", Digit[k]>> : k \in {j \in 1..MaxDirs :
        /\ <<"/", "t", Digit[j]>> \notin existing
        /\ \A i \in 1..(j - 1) : <<"/", "t", Digit[i]>> \in existing}}

StacFiles ==
    { <<" ", "g", " ">>, <<"b">>, <<"c">>, <<"n">>, <<"j">>, <<"q">>,
      <<"h", "t", "t", "p", ":", "/", "/", "h", "/", "i">>, <<"h", "t", "t", "p", ":", "/", "/", "h", "/", "z">>, <<"h", "t", "t", "p", ":", "/", "/", "x", "/", "i">> }

SpecHosts == {HostH, HostX}

Versions == {<<"0", ".", "9", ".", "0">>, <<"v", "1", ".", "0", ".", "0">>, <<"1", ".", "1", ".", "0">>, <<"m", "a", "s", "t", "e", "r">>}

FixAlphabet == {"m", "d", "v", "0", "9", "."}

FixInputs ==
    UNION {[1..n -> FixAlphabet] : n \in 1..MaxLen}
    \cup Versions \cup {<<"v", "0", ".", "9", ".", "0">>, <<"0", ".", "1", "0", ".", "0">>, <<"d", "e", "v">>, <<"1", ".", "0", ".", "0">>}

(***************************************************************************)
(* State.                                                                  *)
(***************************************************************************)
NoInstance ==
    [alive |-> FALSE, stac_version |-> <<>>, stac_file |-> <<>>, dirpath |-> <<>>,
     stac_spec_host |-> <<>>, message |-> <<>>, stac_type |-> <<>>]

NoCall == Outcome(NoInstance, <<>>, "none", <<>>, 0, 0, 0, None, NoSchema, "none").out

NoMain == [kind |-> "none", dirpath |-> <<>>, printed |-> <<>>]

NoFix == [pc |-> "off", version |-> <<>>, once |-> <<>>, twice |-> <<>>]

Init ==
    /\ self = NoInstance
    /\ nruns = 0
    /\ dirs = {}
    /\ files = <<>>
    /\ ret = NoCall
    /\ resolved = {}
    /\ mainRec = NoMain
    /\ fv = NoFix

\* stac = StacValidate(stac_file, stac_spec_host, version): the object
\* replaces the one the client had, and no call has been made on it yet
Construct(stac_file, stac_spec_host, version) ==
    /\ \E d \in mkdtemp(dirs) :
          /\ self' = StacValidate(stac_file, stac_spec_host, version, d)
          /\ dirs' = dirs \cup {d}
    /\ nruns' = 0
    /\ ret' = NoCall
    /\ UNCHANGED <<files, resolved, mainRec, fv>>

RunEffect(r) ==
    /\ self' = r.self
    /\ files' = r.files
    /\ ret' = r.out
    /\ resolved' = resolved \cup Resolution(r.out, nruns + 1)

\* stac.run()
Run ==
    /\ self.alive
    /\ nruns < MaxRuns
    /\ \E vo \in VoChoices(self, files) : RunEffect(run(self, files, vo))
    /\ nruns' = nruns + 1
    /\ UNCHANGED <<dirs, mainRec, fv>>

\* main() without the shutil.rmtree
MainEffect_NoRmtree(d, r) ==
    /\ ret' = r.out
    /\ dirs' = dirs \cup {d}
    /\ files' = r.files
    /\ mainRec' = [kind |-> IF r.out.kind = "returned" THEN "done" ELSE "raised",
                   dirpath |-> d,
                   printed |-> IF r.out.kind = "returned" THEN r.self.message ELSE <<>>]

\* main() after stac.run(): rmtree and print, unless run() raised
MainEffect(d, r) ==
    /\ ret' = r.out
    /\ IF r.out.kind = "returned"
       THEN /\ dirs' = dirs
            /\ files' = rmtree(r.files, d)
            /\ mainRec' = [kind |-> "done", dirpath |-> d, printed |-> r.self.message]
       ELSE /\ dirs' = dirs \cup {d}
            /\ files' = r.files
            /\ mainRec' = [kind |-> "raised", dirpath |-> d, printed |-> <<>>]

MainRun(d, stac) == \E vo \in VoChoices(stac, files) : MainEffect(d, run(stac, files, vo))

\* main(): construct, run, remove the scratch directory, print
Main(stac_file, stac_spec_host, version) ==
    /\ \E d \in mkdtemp(dirs) :
          MainRun(d, StacValidate(stac_file, stac_spec_host, version, d))
    /\ UNCHANGED <<self, nruns, resolved, fv>>

\* a client of the class: objects are constructed and run
Next ==
    \/ \E f \in StacFiles, h \in SpecHosts, v \in Versions : Construct(f, h, v)
    \/ Run

Spec == Init /\ [][Next]_vars

\* the command line tool, invoked again and again on the same machine
NextMain == \E f \in StacFiles, h \in SpecHosts, v \in Versions : Main(f, h, v)

SpecMain == Init /\ [][NextMain]_vars

(***************************************************************************)
(* fix_version on its own: a version is drawn, normalised, and the result  *)
(* normalised again.                                                       *)
(***************************************************************************)
InitFix ==
    /\ self = NoInstance
    /\ nruns = 0
    /\ dirs = {}
    /\ files = <<>>
    /\ ret = NoCall
    /\ resolved = {}
    /\ mainRec = NoMain
    /\ fv \in {[pc |-> "in", version |-> v, once |-> <<>>, twice |-> <<>>] : v \in FixInputs}

FixOnce ==
    /\ fv.pc = "in"
    /\ fv' = [fv EXCEPT !.pc = "once", !.once = fix_version(fv.version)]
    /\ UNCHANGED <<self, nruns, dirs, files, ret, resolved, mainRec>>

FixTwice ==
    /\ fv.pc = "once"
    /\ fv' = [fv EXCEPT !.pc = "twice", !.twice = fix_version(fv.once)]
    /\ UNCHANGED <<self, nruns, dirs, files, ret, resolved, mainRec>>

NextFix == FixOnce \/ FixTwice

SpecFix == InitFix /\ [][NextFix]_vars

(***************************************************************************)
(* Properties.                                                             *)
(***************************************************************************)
Last(q) == q[Len(q)]

Has(m, k) == k \in DOMAIN m

Contains(text, sub) ==
    \E k \in 1..(Len(text) - Len(sub) + 1) : SubSeq(text, k, k + Len(sub) - 1) = sub

\* JSON Schema validation of a document against a schema, as far as the
\* documents of this model go: the required properties are there
Conforms(doc, schema) == schema.required \subseteq doc.props

Returned == ret.kind = "returned"

NoError(m) == ~Has(m, "error_type") /\ ~Has(m, "error_message")

\* the call returned, and its result is an error of this kind
ResultError(kind) ==
    /\ Returned /\ ret.value # <<>>
    /\ Has(Last(ret.value), "error_type") /\ Last(ret.value).error_type = kind
    /\ Last(ret.value).valid_stac = FALSE

ErrorTypes ==
    {"InvalidJSON", "FileNotFoundError", "SchemaError", "RefResolutionError", "ValidationError"}

ItemText == <<"i", "t", "e", "m">>
V090 == <<"v", "0", ".", "9", ".", "0">>
V100 == <<"v", "1", ".", "0", ".", "0">>
UrlZ == <<"h", "t", "t", "p", ":", "/", "/", "h", "/", "z">>

\* C1: when run() gets a document to the validation, the verdict is the
\* document's: valid_stac is true without error fields if the document
\* conforms to the schema resolved for it, and false with error_type
\* ValidationError and a message naming the failing property if it does not
\* (a schema reference that cannot be resolved aside).
C1_VerdictIsAboutDocument ==
    (Returned /\ ret.validations = 1 /\ ~ResultError("RefResolutionError")) =>
        LET m == Last(ret.value)
        IN  IF Conforms(ret.stac_content, ret.schema_json)
            THEN m.valid_stac /\ NoError(m)
            ELSE /\ ~m.valid_stac
                 /\ Has(m, "error_type") /\ m.error_type = "ValidationError"
                 /\ Has(m, "error_message") /\ Contains(m.error_message, <<"i", "d">>)

WellFormed(m) ==
    /\ Has(m, "valid_stac")
    /\ IF m.valid_stac THEN NoError(m)
       ELSE Has(m, "error_type") /\ Has(m, "error_message") /\ m.error_type \in ErrorTypes

\* C2: every result object run() returns is either valid_stac = true with no
\* error_type and no error_message, or valid_stac = false with both present
\* and error_type one of the five error kinds.
C2_ResultWellFormed ==
    Returned => \A k \in 1..Len(ret.value) : WellFormed(ret.value[k])

C2_Witness ==
    /\ Returned /\ Len(ret.value) = 2
    /\ ret.value[1].valid_stac
    /\ ~ret.value[2].valid_stac /\ ret.value[2].error_type = "RefResolutionError"

\* the body behind a source is there and is not JSON
NotJson(f) ==
    IF is_valid_url(f) THEN ~StartsWith(f, HostX) /\ f \notin DOMAIN WebJson
    ELSE f \in DOMAIN LocalFiles /\ ~LocalFiles[f].parses

Missing(f) == ~is_valid_url(f) /\ f \notin DOMAIN LocalFiles

SchemaUrl ==
    PathJoin(ret.stac_spec_host,
             <<ret.stac_version, Lower(ret.stac_content.object_type) \o JsonSuffix>>)

\* C4: when the request for the root schema meets a non-JSON body or an
\* unreachable host, run() returns a result with valid_stac = false and
\* error_type SchemaError.
C4_SchemaErrorOnAnyFailure ==
    (ret.schema_requests = 1 /\ Get(SchemaUrl).status # "json") => ResultError("SchemaError")

\* C5: a failed document fetch ends run() with no schema request, no
\* validation and a one-element array whose object has path and the error
\* fields and neither asset_type nor schema; a failed root schema fetch ends it
\* with no sub-schema request, no validation and a one-element array whose
\* object has path and asset_type and no schema.
C5_EarlyExits ==
    /\ (ResultError("InvalidJSON") \/ ResultError("FileNotFoundError")) =>
          /\ ret.schema_requests = 0 /\ ret.sub_requests = 0 /\ ret.validations = 0
          /\ Len(ret.value) = 1
          /\ DOMAIN ret.value[1] = {"path", "valid_stac", "error_type", "error_message"}
    /\ ResultError("SchemaError") =>
          /\ ret.sub_requests = 0 /\ ret.validations = 0
          /\ Len(ret.value) = 1
          /\ Has(ret.value[1], "path") /\ Has(ret.value[1], "asset_type")
          /\ ~Has(ret.value[1], "schema")

\* C6: fix_version puts a 'v' in front of a non-empty version unless it starts
\* with 'm', 'd' or 'v', which it returns unchanged; "0.9.0" becomes "v0.9.0",
\* "master", "dev" and "v1.0.0" stay; a second application changes nothing.
C6_FixVersion ==
    /\ fv.pc \in {"once", "twice"} =>
          /\ fv.once = IF Head(fv.version) = "m" \/ Head(fv.version) = "d"
                          \/ Head(fv.version) = "v"
                       THEN fv.version ELSE <<"v">> \o fv.version
          /\ fv.version = <<"0", ".", "9", ".", "0">> => fv.once = V090
          /\ fv.version \in {<<"m", "a", "s", "t", "e", "r">>, <<"d", "e", "v">>, V100} => fv.once = fv.version
    /\ fv.pc = "twice" => fv.twice = fv.once

C6_Witness == fv.pc = "twice" /\ fv.version = <<"0", ".", "9", ".", "0">> /\ fv.twice = V090

SameInputs(a, b) ==
    /\ a.stac_type = b.stac_type
    /\ a.stac_version = b.stac_version
    /\ a.stac_spec_host = b.stac_spec_host

\* C7 as claimed: two resolutions for the same object type, version and schema
\* host give the same rewritten root schema, also on two objects with their
\* own scratch directories.
C7_SameInputsSameSchema ==
    \A a, b \in resolved : SameInputs(a, b) => a.schema_json = b.schema_json

\* C7 amended: two resolutions for the same object type, version, schema host
\* and scratch directory give the same rewritten root schema.
C7_SameInputsAndDirSameSchema ==
    \A a, b \in resolved :
        (SameInputs(a, b) /\ a.dirpath = b.dirpath) => a.schema_json = b.schema_json

C7_Witness ==
    \E a, b \in resolved :
        /\ SameInputs(a, b) /\ a.dirpath = b.dirpath /\ a.call = 1 /\ b.call = 2
        /\ a.schema_json = b.schema_json

AllOf(schema) == schema.definitions.common_metadata.allOf

\* C8: once the root schema is fetched, the common schemas are resolved
\* exactly when the type is "item" and the version is greater than "v0.9.0" as
\* a string; when fetch_common_schemas has returned, every $ref of
\* definitions.common_metadata.allOf is file:// followed by a path under the
\* scratch directory at which a file has been saved.
C8_CommonSchemas ==
    /\ (ret.schema_requests = 1 /\ Get(SchemaUrl).status = "json") =>
          (ret.common # "none" <=>
              (Lower(ret.stac_content.object_type) = ItemText
                 /\ StrGreater(ret.stac_version, V090)))
    /\ ret.common = "returned" =>
          \A k \in 1..Len(AllOf(ret.schema_json)) :
              LET ref == AllOf(ret.schema_json)[k]["$ref"]
                  path == SubSeq(ref, Len(FilePrefix) + 1, Len(ref))
              IN  /\ StartsWith(ref, FilePrefix \o ret.dirpath \o <<"/">>)
                  /\ path \in DOMAIN files

C8_Witness ==
    /\ ret.common = "returned" /\ ret.stac_version = V100
    /\ Len(AllOf(ret.schema_json)) = 2

UnderDir(d) == {p \in DOMAIN files : StartsWith(p, d \o <<"/">>)}

\* C9 as claimed: whichever way run() ends, the scratch directory is gone when
\* main is over.
C9_ScratchAlwaysRemoved ==
    mainRec.kind # "none" => (mainRec.dirpath \notin dirs /\ UnderDir(mainRec.dirpath) = {})

\* C9 amended: when run() returns (a success or a structured error), the
\* scratch directory and the files under it are gone when main is over; when
\* run() raises, the directory is still there.
C9_ScratchRemovedOnReturn ==
    /\ mainRec.kind = "done" =>
          (mainRec.dirpath \notin dirs /\ UnderDir(mainRec.dirpath) = {})
    /\ mainRec.kind = "raised" => mainRec.dirpath \in dirs

C9_Witness ==
    /\ mainRec.kind = "done" /\ ret.common = "returned"
    /\ mainRec.dirpath \notin dirs

\* C10: every call of run() returns, and leaves in self.message, an array of
\* exactly one result object, that call's.
C10_OneResultPerCall ==
    Returned => (Len(ret.value) = 1 /\ ret.message = ret.value)

====
